---- MODULE Spec2Model ----
(***************************************************************************)
(* Model of the traffic generation / verification engine of                *)
(* litex_64bit_addressing_test: the AXI-Lite and Wishbone packet streamers *)
(* and checkers, the SimSoC pipeline that chains four of them, and the     *)
(* debug timeline that finishes the simulation after a data error.         *)
(*                                                                         *)
(* The design is synchronous.  One Tick is one clock cycle: the            *)
(* combinatorial signals of the cycle are computed from the registers and  *)
(* from the slave-side inputs of the cycle, and every register takes its   *)
(* next value.  The interconnect and the RAMs are the environment: they    *)
(* answer each port with ready/valid/ack at times of their own choosing.   *)
(***************************************************************************)
EXTENDS Integers, Sequences, FiniteSets, TLC

(* ----------------------------- bounds ---------------------------------- *)
\* adr_width and dw are constructor parameters of the four classes; the
\* model instantiates them narrow so that wrap-around is within reach.
AdrWidth == 5
DataWidth == 3
\* max_len ranges over 4, 8, .. 4*MaxWords bytes
MaxWords == 2
\* number of memory words the fault injection may corrupt in one run
MaxCorrupt == 2
\* number of split acceptances by the slave side in one run: write data
\* accepted before its address, a write address accepted before its data,
\* or a write acknowledged before the registered write data is on the bus
MaxEarly == 1
\* number of sessions the test bench of a single stage starts
MaxRuns == 2

(* ------------------------- program constants --------------------------- *)
\* timeline(self.data_error, [(128, [Finish()])])
WatchdogDelay == 128
\* If(delay == 10, ...) in WAIT_DELAY
WaitDelay == 10

AdrMod == 2 ^ AdrWidth
DataMod == 2 ^ DataWidth
\* an empty slot of the slave side; no mismatch seen yet
NoVal == 0 - 1

Writers == {"pkt_stream_h", "pkt_stream_l"}
Checkers == {"pkt_check_h", "pkt_check_l"}
Stages == Writers \cup Checkers
HighStages == {"pkt_stream_h", "pkt_check_h"}

VARIABLES
    bus_std,      \* endpoint_bus_std: "axi-lite" or "wishbone"
    addressing,   \* "byte" or "word"
    max_len,      \* max_len argument of the four constructors, in bytes
    soc_fsm,      \* SimSoC.fsm: "RESET" or "WAIT-END-CHECK"
    fsm,          \* fsm state of each streamer / checker
    base_addr,    \* base_addr register of each stage
    sent_data,    \* sent_data register of each streamer
    recv_data,    \* recv_data register of each checker
    delay,        \* delay register of each Wishbone streamer
    dat_w,        \* bus.dat_w register of each Wishbone streamer
    counter,      \* timeline counter of each checker's add_debug
    finished,     \* a Finish() has been executed
    finish_by,    \* which Finish() statements fired in the last cycle
    mem,          \* the address-mapped memory behind the interconnect
    slv_aw,       \* per write port: write address held by the slave side
    slv_w,        \* per write port: write data held by the slave side
    slv_b,        \* per write port: a write response is pending
    slv_ar,       \* per read port: read address held by the slave side
    xfers,        \* history: completed transfers <<address, value>> per stage
    ended,        \* history: stages in the order in which they asserted end
    errlog,       \* history: Display records of add_debug per checker
    since_err,    \* history: cycles elapsed since a checker's first data_error
    corrupted,    \* history: addresses changed by fault injection
    early,        \* history: number of split acceptances so far
    faults,       \* number of words the fault injection may still corrupt
    error_flag,   \* history: data_error of each checker in the last cycle
    beats,        \* history: aw and w handshakes of the write in progress
    starts,       \* history: number of cycles in which start of a stage was high
    last_end,     \* history: stages that asserted end in the last cycle
    quiet,        \* history: cycles of the wait in progress, length of the last wait
    args,         \* --endpoint-bus-std as given on the command line
    built,        \* "no" before SimSoC is constructed, then the outcome
    alias         \* the address decoder maps both regions onto the same words

vars == << bus_std, addressing, max_len, soc_fsm, fsm, base_addr, sent_data,
           recv_data, delay, dat_w, counter, finished, finish_by, mem,
           slv_aw, slv_w, slv_b, slv_ar, xfers, ended, errlog, since_err,
           corrupted, early, faults, error_flag, beats, starts, last_end,
           quiet, args, built, alias >>

cfgvars == << bus_std, addressing, max_len, args, built, alias >>

(* ----------------- constructor arguments in SimSoC --------------------- *)
\* init_adr argument: 0x400000000 for the high pair, 0x2_0000 for the low
\* pair, scaled to AdrWidth (both are multiples of 4, the high one has the
\* top address bit set).
init_adr(s) == IF s \in HighStages THEN 2 ^ (AdrWidth - 1) ELSE 2 ^ (AdrWidth - 3)

\* mutant: both pairs are given the seed of the high pair
init_val_sameSeed(s) == DataMod - 1

\* init_val argument: 0x12345678 for the high pair, 0xCAFEBEBE for the low
\* pair, scaled to DataWidth (the high pattern wraps after its first word).
init_val(s) == IF s \in HighStages THEN DataMod - 1 ELSE DataMod \div 2

(* ------------- "Parameters" section of the four classes ---------------- *)
AXIStreamer_init_adr(adg, adr) == IF adg = "byte" THEN adr ELSE adr \div 4
AXIStreamer_incr_adr(adg) == IF adg = "byte" THEN 4 ELSE 1
AXIStreamer_max_len(adg, len) == IF adg = "byte" THEN len ELSE len \div 4

AXIChecker_init_adr(adg, adr) == IF adg = "byte" THEN adr ELSE adr \div 4
\* mutant: the checker steps by 4 in word mode too
AXIChecker_incr_adr_always4(adg) == 4

AXIChecker_incr_adr(adg) == IF adg = "byte" THEN 4 ELSE 1
AXIChecker_max_len(adg, len) == IF adg = "byte" THEN len ELSE len \div 4

WBStreamer_init_adr(adg, adr) == IF adg = "byte" THEN adr ELSE adr \div 4
WBStreamer_incr_adr(adg) == IF adg = "byte" THEN 4 ELSE 1
WBStreamer_max_len(adg, len) == IF adg = "byte" THEN len ELSE len \div 4

\* mutant: the word-mode shift of the base address is forgotten
WBChecker_init_adr_noShift(adg, adr) == adr

WBChecker_init_adr(adg, adr) == IF adg = "byte" THEN adr ELSE adr \div 4
WBChecker_incr_adr(adg) == IF adg = "byte" THEN 4 ELSE 1
WBChecker_max_len(adg, len) == IF adg = "byte" THEN len ELSE len \div 4

\* the class of stage s under bus standard std
ClassOf(std, s) ==
    IF std = "axi-lite"
    THEN (IF s \in Writers THEN "AXIPacketStreamer" ELSE "AXIPacketChecker")
    ELSE (IF s \in Writers THEN "WishbonePacketStreamer" ELSE "WishbonePacketChecker")

ClassInitAdr(cls, adg, adr) ==
    CASE cls = "AXIPacketStreamer" -> AXIStreamer_init_adr(adg, adr)
      [] cls = "AXIPacketChecker" -> AXIChecker_init_adr(adg, adr)
      [] cls = "WishbonePacketStreamer" -> WBStreamer_init_adr(adg, adr)
      [] cls = "WishbonePacketChecker" -> WBChecker_init_adr(adg, adr)

ClassIncrAdr(cls, adg) ==
    CASE cls = "AXIPacketStreamer" -> AXIStreamer_incr_adr(adg)
      [] cls = "AXIPacketChecker" -> AXIChecker_incr_adr(adg)
      [] cls = "WishbonePacketStreamer" -> WBStreamer_incr_adr(adg)
      [] cls = "WishbonePacketChecker" -> WBChecker_incr_adr(adg)

ClassMaxLen(cls, adg, len) ==
    CASE cls = "AXIPacketStreamer" -> AXIStreamer_max_len(adg, len)
      [] cls = "AXIPacketChecker" -> AXIChecker_max_len(adg, len)
      [] cls = "WishbonePacketStreamer" -> WBStreamer_max_len(adg, len)
      [] cls = "WishbonePacketChecker" -> WBChecker_max_len(adg, len)

\* _init_adr, _incr_adr, _max_len of stage s in the current run
InitAdr(s) == ClassInitAdr(ClassOf(bus_std, s), addressing, init_adr(s))
IncrAdr(s) == ClassIncrAdr(ClassOf(bus_std, s), addressing)
MaxLen(s) == ClassMaxLen(ClassOf(bus_std, s), addressing, max_len)

\* mutant: the address compared with is one increment too far
LastAddress_offByOne(s) == InitAdr(s) + MaxLen(s) = base_addr[s]

\* If(_init_adr + _max_len - _incr_adr == base_addr, ...): the left side is
\* a Python integer, the right side the adr_width-bit register.
LastAddress(s) == InitAdr(s) + MaxLen(s) - IncrAdr(s) = base_addr[s]

(* --------------------- slave-side inputs of a cycle -------------------- *)
NoIn == [aw_ready |-> FALSE, w_ready |-> FALSE, b_valid |-> FALSE,
         ar_ready |-> FALSE, r_valid |-> FALSE, ack |-> FALSE]

\* signals a stage drives on its port, by fsm state
aw_valid(s) == bus_std = "axi-lite" /\ fsm[s] = "WR_DAT-ADR"
w_valid(s) == bus_std = "axi-lite" /\ fsm[s] \in {"WR_DAT-ADR", "WAIT_DAT"}
\* mutant: the response is awaited while the data beat is still offered
b_ready_inWaitDat(s) == bus_std = "axi-lite" /\ fsm[s] \in {"WAIT_DAT", "WAIT_B"}

b_ready(s) == bus_std = "axi-lite" /\ fsm[s] = "WAIT_B"
\* mutant: the read address is offered in IDLE too
ar_valid_inIdle(s) == bus_std = "axi-lite" /\ fsm[s] \in {"IDLE", "RD_ADDR"}

ar_valid(s) == bus_std = "axi-lite" /\ fsm[s] = "RD_ADDR"
r_ready(s) == bus_std = "axi-lite" /\ fsm[s] = "RD_DAT"
stb(s) == bus_std = "wishbone" /\ fsm[s] \in {"WR_DAT", "RD_DAT"}
we(s) == bus_std = "wishbone" /\ fsm[s] = "WR_DAT"
cyc(s) == bus_std = "wishbone" /\ fsm[s] \in {"WR_DAT", "RD_DAT"}

\* mutant: only the low byte lane is enabled
sel_lowByte(s) == IF stb(s) THEN 1 ELSE 0

\* bus.sel: every byte lane of the 32-bit word, in the request states
sel(s) == IF stb(s) THEN 2 ^ (32 \div 8) - 1 ELSE 0

\* The write data the writer presents: bus.w.data is driven from sent_data
\* in WR_DAT-ADR only; WAIT_DAT drives w.valid and w.strb and leaves the
\* data at its combinational default.
w_data(s) == IF fsm[s] = "WR_DAT-ADR" THEN sent_data[s] ELSE 0

\* A split acceptance on write port s: the slave takes the write data
\* while the address is still waiting, takes the address alone although it
\* could have taken the data with it, or acknowledges a Wishbone write in
\* a cycle in which the dat_w register does not hold sent_data yet.
EarlyIn(s, i) ==
    \/ aw_valid(s) /\ i.w_ready /\ ~i.aw_ready
    \/ aw_valid(s) /\ i.aw_ready /\ ~i.w_ready /\ slv_w[s] = NoVal
    \/ we(s) /\ i.ack /\ dat_w[s] # sent_data[s]

\* The slave side raises a ready only while the stage drives the channel (a
\* ready nobody looks at is left low), takes an address or a data beat only
\* into a free slot, and answers only what it holds; it may present the
\* write response as soon as it owes one.
WriterIn(s) ==
    { i \in { [NoIn EXCEPT !.aw_ready = a, !.w_ready = w, !.b_valid = b, !.ack = k] :
                a \in (IF aw_valid(s) /\ slv_aw[s] = NoVal THEN BOOLEAN ELSE {FALSE}),
                w \in (IF w_valid(s) /\ slv_w[s] = NoVal THEN BOOLEAN ELSE {FALSE}),
                b \in (IF slv_b[s] THEN BOOLEAN ELSE {FALSE}),
                k \in (IF stb(s) THEN BOOLEAN ELSE {FALSE}) } :
        EarlyIn(s, i) => early < MaxEarly }

CheckerIn(s) ==
    { [NoIn EXCEPT !.ar_ready = a, !.r_valid = r, !.ack = k] :
        a \in (IF ar_valid(s) /\ slv_ar[s] = NoVal THEN BOOLEAN ELSE {FALSE}),
        r \in (IF r_ready(s) /\ slv_ar[s] # NoVal THEN BOOLEAN ELSE {FALSE}),
        k \in (IF stb(s) THEN BOOLEAN ELSE {FALSE}) }

(* --------------------------- the four classes --------------------------- *)
\* mutant: end is asserted with every completed write
StreamerEnd_everyWord(s, i) ==
    IF bus_std = "axi-lite"
    THEN fsm[s] = "WAIT_B" /\ i.b_valid
    ELSE fsm[s] = "WAIT_DELAY" /\ delay[s] = WaitDelay

\* self.end of a streamer
StreamerEnd(s, i) ==
    IF bus_std = "axi-lite"
    THEN fsm[s] = "WAIT_B" /\ i.b_valid /\ LastAddress(s)
    ELSE fsm[s] = "WAIT_DELAY" /\ delay[s] = WaitDelay /\ LastAddress(s)

\* self.end of a checker
CheckerEnd(s) == fsm[s] = "WAIT_RD_ACK" /\ LastAddress(s)

End(s, in) == IF s \in Writers THEN StreamerEnd(s, in[s]) ELSE CheckerEnd(s)

\* mutant: IDLE loads the initial values only in a cycle without start
AXIPacketStreamer_lateReset(s, start, i) ==
    LET cur == [fsm |-> fsm[s], base_addr |-> base_addr[s], sent_data |-> sent_data[s],
                delay |-> delay[s], dat_w |-> dat_w[s]]
    IN CASE fsm[s] = "IDLE" ->
              IF start THEN [cur EXCEPT !.fsm = "WR_DAT-ADR"]
              ELSE [cur EXCEPT !.base_addr = InitAdr(s) % AdrMod,
                               !.sent_data = init_val(s) % DataMod]
         [] fsm[s] = "WR_DAT-ADR" ->
              [cur EXCEPT !.fsm = IF i.aw_ready
                                  THEN (IF i.w_ready THEN "WAIT_B" ELSE "WAIT_DAT")
                                  ELSE "WR_DAT-ADR"]
         [] fsm[s] = "WAIT_DAT" ->
              [cur EXCEPT !.fsm = IF i.w_ready THEN "WAIT_B" ELSE "WAIT_DAT"]
         [] fsm[s] = "WAIT_B" ->
              IF i.b_valid
              THEN [cur EXCEPT !.base_addr = (base_addr[s] + IncrAdr(s)) % AdrMod,
                               !.sent_data = (sent_data[s] + 1) % DataMod,
                               !.fsm = IF LastAddress(s) THEN "IDLE" ELSE "WR_DAT-ADR"]
              ELSE cur

\* mutant: the value register is wider than the data word and does not wrap
AXIPacketStreamer_noWrap(s, start, i) ==
    LET cur == [fsm |-> fsm[s], base_addr |-> base_addr[s], sent_data |-> sent_data[s],
                delay |-> delay[s], dat_w |-> dat_w[s]]
    IN CASE fsm[s] = "IDLE" ->
              [cur EXCEPT !.base_addr = InitAdr(s) % AdrMod,
                          !.sent_data = init_val(s) % DataMod,
                          !.fsm = IF start THEN "WR_DAT-ADR" ELSE "IDLE"]
         [] fsm[s] = "WR_DAT-ADR" ->
              [cur EXCEPT !.fsm = IF i.aw_ready
                                  THEN (IF i.w_ready THEN "WAIT_B" ELSE "WAIT_DAT")
                                  ELSE "WR_DAT-ADR"]
         [] fsm[s] = "WAIT_DAT" ->
              [cur EXCEPT !.fsm = IF i.w_ready THEN "WAIT_B" ELSE "WAIT_DAT"]
         [] fsm[s] = "WAIT_B" ->
              IF i.b_valid
              THEN [cur EXCEPT !.base_addr = (base_addr[s] + IncrAdr(s)) % AdrMod,
                               !.sent_data = sent_data[s] + 1,
                               !.fsm = IF LastAddress(s) THEN "IDLE" ELSE "WR_DAT-ADR"]
              ELSE cur

\* registers of AXIPacketStreamer s after the clock edge
AXIPacketStreamer(s, start, i) ==
    LET cur == [fsm |-> fsm[s], base_addr |-> base_addr[s], sent_data |-> sent_data[s],
                delay |-> delay[s], dat_w |-> dat_w[s]]
    IN CASE fsm[s] = "IDLE" ->
              [cur EXCEPT !.base_addr = InitAdr(s) % AdrMod,
                          !.sent_data = init_val(s) % DataMod,
                          !.fsm = IF start THEN "WR_DAT-ADR" ELSE "IDLE"]
         [] fsm[s] = "WR_DAT-ADR" ->
              [cur EXCEPT !.fsm = IF i.aw_ready
                                  THEN (IF i.w_ready THEN "WAIT_B" ELSE "WAIT_DAT")
                                  ELSE "WR_DAT-ADR"]
         [] fsm[s] = "WAIT_DAT" ->
              [cur EXCEPT !.fsm = IF i.w_ready THEN "WAIT_B" ELSE "WAIT_DAT"]
         [] fsm[s] = "WAIT_B" ->
              IF i.b_valid
              THEN [cur EXCEPT !.base_addr = (base_addr[s] + IncrAdr(s)) % AdrMod,
                               !.sent_data = (sent_data[s] + 1) % DataMod,
                               !.fsm = IF LastAddress(s) THEN "IDLE" ELSE "WR_DAT-ADR"]
              ELSE cur

\* mutant: the delay counter is not cleared at the end of a wait
WishbonePacketStreamer_keepsDelay(s, start, i) ==
    LET cur == [fsm |-> fsm[s], base_addr |-> base_addr[s], sent_data |-> sent_data[s],
                delay |-> delay[s], dat_w |-> dat_w[s]]
    IN CASE fsm[s] = "IDLE" ->
              [cur EXCEPT !.base_addr = InitAdr(s) % AdrMod,
                          !.sent_data = init_val(s) % DataMod,
                          !.delay = 0,
                          !.fsm = IF start THEN "WR_DAT" ELSE "IDLE"]
         [] fsm[s] = "WR_DAT" ->
              [cur EXCEPT !.dat_w = sent_data[s],
                          !.fsm = IF i.ack THEN "WAIT_DELAY" ELSE "WR_DAT"]
         [] fsm[s] = "WAIT_DELAY" ->
              IF delay[s] = WaitDelay
              THEN [cur EXCEPT !.base_addr = (base_addr[s] + IncrAdr(s)) % AdrMod,
                               !.sent_data = (sent_data[s] + 1) % DataMod,
                               !.fsm = IF LastAddress(s) THEN "IDLE" ELSE "WR_DAT"]
              ELSE [cur EXCEPT !.delay = delay[s] + 1]

\* registers of WishbonePacketStreamer s after the clock edge
WishbonePacketStreamer(s, start, i) ==
    LET cur == [fsm |-> fsm[s], base_addr |-> base_addr[s], sent_data |-> sent_data[s],
                delay |-> delay[s], dat_w |-> dat_w[s]]
    IN CASE fsm[s] = "IDLE" ->
              [cur EXCEPT !.base_addr = InitAdr(s) % AdrMod,
                          !.sent_data = init_val(s) % DataMod,
                          !.delay = 0,
                          !.fsm = IF start THEN "WR_DAT" ELSE "IDLE"]
         [] fsm[s] = "WR_DAT" ->
              [cur EXCEPT !.dat_w = sent_data[s],
                          !.fsm = IF i.ack THEN "WAIT_DELAY" ELSE "WR_DAT"]
         [] fsm[s] = "WAIT_DELAY" ->
              IF delay[s] = WaitDelay
              THEN [cur EXCEPT !.delay = 0,
                               !.base_addr = (base_addr[s] + IncrAdr(s)) % AdrMod,
                               !.sent_data = (sent_data[s] + 1) % DataMod,
                               !.fsm = IF LastAddress(s) THEN "IDLE" ELSE "WR_DAT"]
              ELSE [cur EXCEPT !.delay = delay[s] + 1]

\* The memory word an address selects: each region has its own words,
\* unless the decoder is faulty and the k-th word of the high region is
\* the k-th word of the low region.
Cell(a) ==
    IF alias /\ a >= (InitAdr("pkt_stream_h") % AdrMod)
    THEN (a - (InitAdr("pkt_stream_h") % AdrMod)) + (InitAdr("pkt_stream_l") % AdrMod)
    ELSE a

\* a read returns its data to checker s in this cycle
ReadValid(s, i) ==
    IF bus_std = "axi-lite" THEN r_ready(s) /\ i.r_valid ELSE fsm[s] = "RD_DAT" /\ i.ack

\* bus.r.data / bus.dat_r: the memory word at the address of the read
ReadData(s) ==
    IF bus_std = "axi-lite" THEN mem[Cell(slv_ar[s] % AdrMod)] ELSE mem[Cell(base_addr[s])]

\* self.data_error: combinatorial, high in the cycle of a mismatching read
data_error(s, i) == ReadValid(s, i) /\ ReadData(s) # recv_data[s]

\* mutant: a mismatch aborts the session
AXIPacketChecker_haltOnError(s, start, i) ==
    LET cur == [fsm |-> fsm[s], base_addr |-> base_addr[s], recv_data |-> recv_data[s]]
    IN CASE fsm[s] = "IDLE" ->
              [cur EXCEPT !.base_addr = InitAdr(s) % AdrMod,
                          !.recv_data = init_val(s) % DataMod,
                          !.fsm = IF start THEN "RD_ADDR" ELSE "IDLE"]
         [] fsm[s] = "RD_ADDR" ->
              [cur EXCEPT !.fsm = IF i.ar_ready THEN "RD_DAT" ELSE "RD_ADDR"]
         [] fsm[s] = "RD_DAT" ->
              [cur EXCEPT !.fsm = IF i.r_valid
                                  THEN (IF data_error(s, i) THEN "IDLE" ELSE "WAIT_RD_ACK")
                                  ELSE "RD_DAT"]
         [] fsm[s] = "WAIT_RD_ACK" ->
              [cur EXCEPT !.base_addr = (base_addr[s] + IncrAdr(s)) % AdrMod,
                          !.recv_data = (recv_data[s] + 1) % DataMod,
                          !.fsm = IF LastAddress(s) THEN "IDLE" ELSE "RD_ADDR"]

\* mutant: IDLE does not load the initial address and value
AXIPacketChecker_noReload(s, start, i) ==
    LET cur == [fsm |-> fsm[s], base_addr |-> base_addr[s], recv_data |-> recv_data[s]]
    IN CASE fsm[s] = "IDLE" ->
              [cur EXCEPT !.fsm = IF start THEN "RD_ADDR" ELSE "IDLE"]
         [] fsm[s] = "RD_ADDR" ->
              [cur EXCEPT !.fsm = IF i.ar_ready THEN "RD_DAT" ELSE "RD_ADDR"]
         [] fsm[s] = "RD_DAT" ->
              [cur EXCEPT !.fsm = IF i.r_valid THEN "WAIT_RD_ACK" ELSE "RD_DAT"]
         [] fsm[s] = "WAIT_RD_ACK" ->
              [cur EXCEPT !.base_addr = (base_addr[s] + IncrAdr(s)) % AdrMod,
                          !.recv_data = (recv_data[s] + 1) % DataMod,
                          !.fsm = IF LastAddress(s) THEN "IDLE" ELSE "RD_ADDR"]

\* registers of AXIPacketChecker s after the clock edge
AXIPacketChecker(s, start, i) ==
    LET cur == [fsm |-> fsm[s], base_addr |-> base_addr[s], recv_data |-> recv_data[s]]
    IN CASE fsm[s] = "IDLE" ->
              [cur EXCEPT !.base_addr = InitAdr(s) % AdrMod,
                          !.recv_data = init_val(s) % DataMod,
                          !.fsm = IF start THEN "RD_ADDR" ELSE "IDLE"]
         [] fsm[s] = "RD_ADDR" ->
              [cur EXCEPT !.fsm = IF i.ar_ready THEN "RD_DAT" ELSE "RD_ADDR"]
         [] fsm[s] = "RD_DAT" ->
              [cur EXCEPT !.fsm = IF i.r_valid THEN "WAIT_RD_ACK" ELSE "RD_DAT"]
         [] fsm[s] = "WAIT_RD_ACK" ->
              [cur EXCEPT !.base_addr = (base_addr[s] + IncrAdr(s)) % AdrMod,
                          !.recv_data = (recv_data[s] + 1) % DataMod,
                          !.fsm = IF LastAddress(s) THEN "IDLE" ELSE "RD_ADDR"]

\* mutant: start restarts a session in progress
WishbonePacketChecker_restarts(s, start, i) ==
    LET cur == [fsm |-> fsm[s], base_addr |-> base_addr[s], recv_data |-> recv_data[s]]
    IN CASE fsm[s] = "IDLE" \/ start ->
              [cur EXCEPT !.base_addr = InitAdr(s) % AdrMod,
                          !.recv_data = init_val(s) % DataMod,
                          !.fsm = IF start THEN "RD_DAT" ELSE "IDLE"]
         [] fsm[s] = "RD_DAT" /\ ~start ->
              [cur EXCEPT !.fsm = IF i.ack THEN "WAIT_RD_ACK" ELSE "RD_DAT"]
         [] fsm[s] = "WAIT_RD_ACK" /\ ~start ->
              [cur EXCEPT !.base_addr = (base_addr[s] + IncrAdr(s)) % AdrMod,
                          !.recv_data = (recv_data[s] + 1) % DataMod,
                          !.fsm = IF LastAddress(s) THEN "IDLE" ELSE "RD_DAT"]

\* registers of WishbonePacketChecker s after the clock edge
WishbonePacketChecker(s, start, i) ==
    LET cur == [fsm |-> fsm[s], base_addr |-> base_addr[s], recv_data |-> recv_data[s]]
    IN CASE fsm[s] = "IDLE" ->
              [cur EXCEPT !.base_addr = InitAdr(s) % AdrMod,
                          !.recv_data = init_val(s) % DataMod,
                          !.fsm = IF start THEN "RD_DAT" ELSE "IDLE"]
         [] fsm[s] = "RD_DAT" ->
              [cur EXCEPT !.fsm = IF i.ack THEN "WAIT_RD_ACK" ELSE "RD_DAT"]
         [] fsm[s] = "WAIT_RD_ACK" ->
              [cur EXCEPT !.base_addr = (base_addr[s] + IncrAdr(s)) % AdrMod,
                          !.recv_data = (recv_data[s] + 1) % DataMod,
                          !.fsm = IF LastAddress(s) THEN "IDLE" ELSE "RD_DAT"]

\* mutant: the record reports the first address of the region
DebugRecord_initAdr(s) == << InitAdr(s) % AdrMod, ReadData(s), recv_data[s] >>

\* mutant: the record gives the expected word before the word read
DebugRecord_expectedFirst(s) == << base_addr[s], recv_data[s], ReadData(s) >>

\* add_debug: the arguments of Display, in the order in which they are given
DebugRecord(s) == << base_addr[s], ReadData(s), recv_data[s] >>

\* mutant: the record is taken by a latch, only while no record is held
add_debug_firstOnly(s, i) ==
    IF data_error(s, i) /\ errlog[s] = << >> THEN Append(errlog[s], DebugRecord(s))
    ELSE errlog[s]

\* add_debug: If(self.data_error, Display(...)) executes in every cycle in
\* which data_error is high; the records displayed so far
add_debug(s, i) ==
    IF data_error(s, i) THEN Append(errlog[s], DebugRecord(s)) ELSE errlog[s]

\* mutant: data_error is a latch
ErrorFlag_latched(s, i) == error_flag[s] \/ data_error(s, i)

\* the value of data_error seen after the cycle: the signal is driven by
\* the fsm only, it has no register
ErrorFlag(s, i) == data_error(s, i)

\* mutant: the trigger loads the delay, as for a counter that counts down
TimelineCounter_loadsDelay(cnt, trigger) ==
    IF cnt = WatchdogDelay THEN 0
    ELSE IF cnt # 0 THEN cnt + 1
    ELSE IF trigger THEN WatchdogDelay
    ELSE cnt

\* mutant: a trigger restarts a timeline that is counting
TimelineCounter_retriggers(cnt, trigger) ==
    IF cnt = WatchdogDelay THEN 0
    ELSE IF trigger THEN 1
    ELSE IF cnt # 0 THEN cnt + 1
    ELSE cnt

\* counterlogic of timeline(trigger, [(128, ...)])
TimelineCounter(cnt, trigger) ==
    IF cnt = WatchdogDelay THEN 0
    ELSE IF cnt # 0 THEN cnt + 1
    ELSE IF trigger THEN 1
    ELSE cnt

(* --------------------------------- SimSoC ------------------------------- *)
\* mutant: pkt_stream_l is started by the RESET state too
Start_lowOnReset(s, in) ==
    CASE s = "pkt_stream_h" -> soc_fsm = "RESET"
      [] s = "pkt_stream_l" -> soc_fsm = "RESET"
      [] s = "pkt_check_h" -> End("pkt_stream_l", in)
      [] s = "pkt_check_l" -> End("pkt_check_h", in)

\* mutant: both checkers are started by the end of pkt_stream_l
Start_checkersTogether(s, in) ==
    CASE s = "pkt_stream_h" -> soc_fsm = "RESET"
      [] s = "pkt_stream_l" -> End("pkt_stream_h", in)
      [] s = "pkt_check_h" -> End("pkt_stream_l", in)
      [] s = "pkt_check_l" -> End("pkt_stream_l", in)

\* mutant: the start of pkt_check_l is wired to its own end
Start_selfWired(s, in) ==
    CASE s = "pkt_stream_h" -> soc_fsm = "RESET"
      [] s = "pkt_stream_l" -> End("pkt_stream_h", in)
      [] s = "pkt_check_h" -> End("pkt_stream_l", in)
      [] s = "pkt_check_l" -> End("pkt_check_l", in)

\* mutant: the start inputs are registered copies of the end outputs
Start_registered(s, in) ==
    CASE s = "pkt_stream_h" -> soc_fsm = "RESET"
      [] s = "pkt_stream_l" -> "pkt_stream_h" \in last_end
      [] s = "pkt_check_h" -> "pkt_stream_l" \in last_end
      [] s = "pkt_check_l" -> "pkt_check_h" \in last_end

\* mutant: the start of pkt_stream_h is tied high
Start_always(s, in) ==
    CASE s = "pkt_stream_h" -> TRUE
      [] s = "pkt_stream_l" -> End("pkt_stream_h", in)
      [] s = "pkt_check_h" -> End("pkt_stream_l", in)
      [] s = "pkt_check_l" -> End("pkt_check_h", in)

\* mutant: pkt_stream_h is started again by the end of pkt_check_l
Start_highAgain(s, in) ==
    CASE s = "pkt_stream_h" -> soc_fsm = "RESET" \/ End("pkt_check_l", in)
      [] s = "pkt_stream_l" -> End("pkt_stream_h", in)
      [] s = "pkt_check_h" -> End("pkt_stream_l", in)
      [] s = "pkt_check_l" -> End("pkt_check_h", in)

\* "Pipeline sequence" and the RESET state of SimSoC.fsm
Start(s, in) ==
    CASE s = "pkt_stream_h" -> soc_fsm = "RESET"
      [] s = "pkt_stream_l" -> End("pkt_stream_h", in)
      [] s = "pkt_check_h" -> End("pkt_stream_l", in)
      [] s = "pkt_check_l" -> End("pkt_check_h", in)

\* mutant: the Finish() on pkt_check_l.end is missing
FinishBy_noEnd(in) == { c \in Checkers : counter[c] = WatchdogDelay }

\* mutant: the Finish() meant for pkt_check_l.end tests pkt_check_h.end
FinishBy_checkHigh(in) ==
    (IF End("pkt_check_h", in) THEN {"end"} ELSE {})
      \cup { c \in Checkers : counter[c] = WatchdogDelay }

\* The Finish() statements that execute in this cycle: the one on
\* pkt_check_l.end, and the timeline of each checker's add_debug.
FinishBy(in) ==
    (IF End("pkt_check_l", in) THEN {"end"} ELSE {})
      \cup { c \in Checkers : counter[c] = WatchdogDelay }

(* ------------------------------ one cycle ------------------------------- *)
NWords == max_len \div 4

\* the value the pattern of checker c puts at its k-th address
PatternAddr(c, k) == InitAdr(c) + k * IncrAdr(c)
PatternVal(c, k) == (init_val(c) + k) % DataMod

\* the slave side of write port s after the cycle: it latches what it
\* accepted, performs the write once it holds both address and data, and
\* then owes the response
AwHeld(s, i) == IF aw_valid(s) /\ i.aw_ready THEN base_addr[s] ELSE slv_aw[s]
WHeld(s, i) == IF w_valid(s) /\ i.w_ready THEN w_data(s) ELSE slv_w[s]
BLeft(s, i) == slv_b[s] /\ ~(b_ready(s) /\ i.b_valid)
AxiCommit(s, i) == AwHeld(s, i) # NoVal /\ WHeld(s, i) # NoVal /\ ~BLeft(s, i)

\* the memory write of port s in this cycle, as <<address, data>>, or << >>
MemWrite(s, i) ==
    IF bus_std = "axi-lite"
    THEN (IF AxiCommit(s, i) THEN << Cell(AwHeld(s, i) % AdrMod), WHeld(s, i) >>
          ELSE << >>)
    ELSE (IF we(s) /\ cyc(s) /\ i.ack /\ sel(s) = 2 ^ (32 \div 8) - 1
          THEN << Cell(base_addr[s]), dat_w[s] >> ELSE << >>)

\* the memory after the writes of this cycle
MemAfter(in) ==
    [a \in DOMAIN mem |->
       LET ws == { s \in Writers : MemWrite(s, in[s]) # << >> /\ MemWrite(s, in[s])[1] = a }
           w == CHOOSE s \in ws : TRUE
       IN IF ws = {} THEN mem[a] ELSE MemWrite(w, in[w])[2]]

\* a transfer of stage s completes in this cycle
Completes(s, i) ==
    IF s \in Writers
    THEN (IF bus_std = "axi-lite" THEN b_ready(s) /\ i.b_valid ELSE we(s) /\ i.ack)
    ELSE ReadValid(s, i)

\* what the completing transfer carried: address and data word of a write,
\* address and expected word of a read
Carried(s) ==
    IF s \in Writers
    THEN << base_addr[s], IF bus_std = "axi-lite" THEN sent_data[s] ELSE dat_w[s] >>
    ELSE << base_addr[s], recv_data[s] >>

\* the aw and w handshakes of the write in progress on port s, after the
\* cycle; the count starts again when the write response is taken
Handshakes(s, i) ==
    IF Completes(s, i) THEN << 0, 0 >>
    ELSE << beats[s][1] + (IF aw_valid(s) /\ i.aw_ready THEN 1 ELSE 0),
            beats[s][2] + (IF w_valid(s) /\ i.w_ready THEN 1 ELSE 0) >>

\* One clock cycle of the design with the slave-side inputs in, the start
\* inputs st of the four stages and the Finish() statements by that execute.
\* the cycles stage s has spent in the wait in progress after this cycle,
\* and the length of its last completed wait; nxt is its next FSM state
Quiet(s, nxt) ==
    IF bus_std = "wishbone" /\ fsm[s] = "WAIT_DELAY"
    THEN (IF nxt = "WAIT_DELAY" THEN << quiet[s][1] + 1, quiet[s][2] >>
          ELSE << 0, quiet[s][1] + 1 >>)
    ELSE quiet[s]

Step(in, st, by) ==
    /\ ~finished
    /\ LET wr(s) == IF bus_std = "axi-lite"
                    THEN AXIPacketStreamer(s, st[s], in[s])
                    ELSE WishbonePacketStreamer(s, st[s], in[s])
           ck(s) == IF bus_std = "axi-lite"
                    THEN AXIPacketChecker(s, st[s], in[s])
                    ELSE WishbonePacketChecker(s, st[s], in[s])
       IN /\ fsm' = [s \in Stages |-> IF s \in Writers THEN wr(s).fsm ELSE ck(s).fsm]
          /\ base_addr' = [s \in Stages |->
                             IF s \in Writers THEN wr(s).base_addr ELSE ck(s).base_addr]
          /\ sent_data' = [s \in Writers |-> wr(s).sent_data]
          /\ delay' = [s \in Writers |-> wr(s).delay]
          /\ dat_w' = [s \in Writers |-> wr(s).dat_w]
          /\ recv_data' = [s \in Checkers |-> ck(s).recv_data]
          /\ soc_fsm' = "WAIT-END-CHECK"
          /\ counter' = [c \in Checkers |->
                           TimelineCounter(counter[c], data_error(c, in[c]))]
          /\ finished' = (by # {})
          /\ finish_by' = by
          /\ mem' = MemAfter(in)
          /\ slv_aw' = [s \in Writers |->
                          IF AxiCommit(s, in[s]) THEN NoVal ELSE AwHeld(s, in[s])]
          /\ slv_w' = [s \in Writers |->
                         IF AxiCommit(s, in[s]) THEN NoVal ELSE WHeld(s, in[s])]
          /\ slv_b' = [s \in Writers |-> BLeft(s, in[s]) \/ AxiCommit(s, in[s])]
          /\ slv_ar' = [s \in Checkers |->
                          IF ar_valid(s) /\ in[s].ar_ready THEN base_addr[s]
                          ELSE IF r_ready(s) /\ in[s].r_valid THEN NoVal
                          ELSE slv_ar[s]]
          /\ xfers' = [s \in Stages |->
                         IF Completes(s, in[s]) THEN Append(xfers[s], Carried(s))
                         ELSE xfers[s]]
          /\ ended' = IF \E s \in Stages : End(s, in)
                      THEN Append(ended, CHOOSE s \in Stages : End(s, in))
                      ELSE ended
          /\ errlog' = [c \in Checkers |-> add_debug(c, in[c])]
          /\ since_err' = [c \in Checkers |->
                             IF since_err[c] = NoVal
                             THEN (IF ~data_error(c, in[c]) THEN NoVal
                                   ELSE IF by # {} THEN 0 ELSE 1)
                             ELSE IF by # {} THEN since_err[c]
                             ELSE since_err[c] + 1]
          /\ early' = early + Cardinality({s \in Writers : EarlyIn(s, in[s])})
          /\ error_flag' = [c \in Checkers |-> ErrorFlag(c, in[c])]
          /\ beats' = [s \in Writers |-> Handshakes(s, in[s])]
          /\ starts' = [s \in Stages |-> starts[s] + (IF st[s] THEN 1 ELSE 0)]
          /\ last_end' = { s \in Stages : End(s, in) }
          /\ quiet' = [s \in Writers |-> Quiet(s, wr(s).fsm)]
    /\ UNCHANGED << cfgvars, corrupted, faults >>

\* a cycle of SimSoC: the start inputs are wired to the pipeline
Tick(in) == Step(in, [s \in Stages |-> Start(s, in)], FinishBy(in))

\* the slave-side inputs the environment may present in this cycle
Inputs ==
    { [s \in Stages |-> CASE s = "pkt_stream_h" -> i1 [] s = "pkt_stream_l" -> i2
                          [] s = "pkt_check_h" -> i3 [] s = "pkt_check_l" -> i4] :
        i1 \in WriterIn("pkt_stream_h"), i2 \in WriterIn("pkt_stream_l"),
        i3 \in CheckerIn("pkt_check_h"), i4 \in CheckerIn("pkt_check_l") }

\* a clock cycle
Clock == \E in \in Inputs : Tick(in)

(* ---------------------------- fault injection --------------------------- *)
\* every word of both regions that was not corrupted holds its pattern value
PatternHeld ==
    \A c \in Checkers : \A k \in 0 .. NWords - 1 :
        PatternAddr(c, k) \in corrupted \/ mem[PatternAddr(c, k)] = PatternVal(c, k)

\* One word of a correctly written region is changed after both writers
\* have ended and before the checker of the region has had a read accepted.
Corrupt ==
    /\ ~finished
    /\ faults > 0
    /\ Len(ended) >= 2
    /\ PatternHeld
    /\ \E c \in Checkers : \E k \in 0 .. NWords - 1 :
         /\ xfers[c] = << >>
         /\ slv_ar[c] = NoVal
         /\ PatternAddr(c, k) \notin corrupted
         /\ mem' = [mem EXCEPT ![PatternAddr(c, k)] = (@ + 1) % DataMod]
         /\ corrupted' = corrupted \cup {PatternAddr(c, k)}
    /\ faults' = faults - 1
    /\ UNCHANGED << cfgvars, soc_fsm, fsm, base_addr, sent_data, recv_data, delay,
                    dat_w, counter, finished, finish_by, slv_aw, slv_w, slv_b,
                    slv_ar, xfers, ended, errlog, since_err, early,
                    error_flag, beats, starts, last_end, quiet >>

(* ------------------------------ the system ------------------------------ *)
\* the registers and the slave side after reset, the history variables
\* empty, and a budget of faults to inject
ResetState(nfaults) ==
    /\ soc_fsm = "RESET"
    /\ fsm = [s \in Stages |-> "IDLE"]
    /\ base_addr = [s \in Stages |-> 0]
    /\ sent_data = [s \in Writers |-> 0]
    /\ recv_data = [s \in Checkers |-> 0]
    /\ delay = [s \in Writers |-> 0]
    /\ dat_w = [s \in Writers |-> 0]
    /\ counter = [c \in Checkers |-> 0]
    /\ finished = FALSE
    /\ finish_by = {}
    /\ mem = [a \in 0 .. AdrMod - 1 |-> 0]
    /\ slv_aw = [s \in Writers |-> NoVal]
    /\ slv_w = [s \in Writers |-> NoVal]
    /\ slv_b = [s \in Writers |-> FALSE]
    /\ slv_ar = [s \in Checkers |-> NoVal]
    /\ xfers = [s \in Stages |-> << >>]
    /\ ended = << >>
    /\ errlog = [c \in Checkers |-> << >>]
    /\ since_err = [c \in Checkers |-> NoVal]
    /\ corrupted = {}
    /\ early = 0
    /\ faults = nfaults
    /\ error_flag = [c \in Checkers |-> FALSE]
    /\ beats = [s \in Writers |-> << 0, 0 >>]
    /\ starts = [s \in Stages |-> 0]
    /\ last_end = {}
    /\ quiet = [s \in Writers |-> << 0, 0 >>]

\* a constructed design of either bus, with sessions of one of the lengths
\* lens, after reset
InitFor(lens, nfaults) ==
    /\ bus_std \in {"axi-lite", "wishbone"}
    /\ addressing \in {"byte", "word"}
    /\ max_len \in lens
    /\ args = bus_std
    /\ built = "SimSoC"
    /\ alias = FALSE
    /\ ResetState(nfaults)

\* the sessions of a run: max_len a positive multiple of 4
InitWith(nfaults) == InitFor({ 4 * n : n \in 1 .. MaxWords }, nfaults)

Init == InitWith(MaxCorrupt)

Next == Clock \/ Corrupt

Spec == Init /\ [][Next]_vars

(* ------------------------------ properties ------------------------------ *)
HasEnded(s) == \E n \in 1 .. Len(ended) : ended[n] = s

\* the stage whose end is wired to the start of s
Previous(s) ==
    CASE s = "pkt_stream_l" -> "pkt_stream_h"
      [] s = "pkt_check_h" -> "pkt_stream_l"
      [] s = "pkt_check_l" -> "pkt_check_h"

\* stage s drives a request or a ready on its port
DrivesBus(s) ==
    aw_valid(s) \/ w_valid(s) \/ b_ready(s) \/ ar_valid(s) \/ r_ready(s) \/ stb(s)

NoMismatch == \A c \in Checkers : errlog[c] = << >>

\* the fields of a Display record of add_debug, by the signal they come from
RecAddress(r) == r[1]
RecObserved(r) == r[2]
RecExpected(r) == r[3]

\* C1: pkt_stream_l, pkt_check_h and pkt_check_l leave IDLE, drive their port
\* or complete a transfer only after the preceding stage has asserted end.
C1_PipelineOrdering ==
    \A s \in Stages \ {"pkt_stream_h"} :
        (fsm[s] # "IDLE" \/ DrivesBus(s) \/ xfers[s] # << >>) => HasEnded(Previous(s))

C1_Witness ==
    /\ fsm["pkt_check_l"] # "IDLE"
    /\ xfers["pkt_check_l"] # << >>
    /\ ended = << "pkt_stream_h", "pkt_stream_l", "pkt_check_h" >>

\* C2: at most one of the four stages is outside IDLE, and every stage that
\* drives its port or writes the memory is that stage.
C2_OneStageActive ==
    /\ Cardinality({ s \in Stages : fsm[s] # "IDLE" }) <= 1
    /\ \A s \in Stages : DrivesBus(s) => fsm[s] # "IDLE"

C2_Witness ==
    /\ fsm["pkt_stream_l"] # "IDLE"
    /\ HasEnded("pkt_stream_h")
    /\ xfers["pkt_stream_l"] # << >>

\* C3: when no word was corrupted (the memory returns what was last written),
\* no checker ever raises data_error, whatever the acceptance timing.
C3_RoundTrip == (corrupted = {}) => NoMismatch

\* C4: with exactly one corrupted word in an otherwise correctly written
\* memory, only the checker of that region flags an error, it does so for
\* exactly one read - the read of the corrupted word - and the record holds
\* the address of that word, the expected pattern value and the value read.
C4_FaultInjection ==
    (Cardinality(corrupted) = 1 /\ PatternHeld) =>
        \A c \in Checkers : \A k \in 0 .. NWords - 1 :
            PatternAddr(c, k) \in corrupted =>
                /\ \A d \in Checkers \ {c} : errlog[d] = << >>
                /\ Len(errlog[c]) <= 1
                /\ (Len(errlog[c]) = 1) <=> (Len(xfers[c]) > k)
                /\ Len(errlog[c]) = 1 =>
                     /\ RecAddress(errlog[c][1]) = PatternAddr(c, k)
                     /\ RecExpected(errlog[c][1]) = PatternVal(c, k)
                     /\ RecObserved(errlog[c][1]) = mem[PatternAddr(c, k)]
                     /\ RecObserved(errlog[c][1]) # PatternVal(c, k)

C4_Witness ==
    /\ Cardinality(corrupted) = 1
    /\ PatternHeld
    /\ HasEnded("pkt_check_l")
    /\ Len(errlog["pkt_check_l"]) = 1
    /\ RecAddress(errlog["pkt_check_l"][1]) # InitAdr("pkt_check_l")

\* C5: a stage completes at most max_len/4 transfers, the i-th at address
\* _init_adr + i*_incr_adr; it asserts end, and is back in IDLE, exactly
\* when it has completed max_len/4 of them, the last one at
\* _init_adr + (max_len/4 - 1)*_incr_adr.
C5_TransferCount ==
    \A s \in Stages :
        /\ Len(xfers[s]) <= NWords
        /\ \A n \in 1 .. Len(xfers[s]) :
             /\ xfers[s][n][1] = InitAdr(s) + (n - 1) * IncrAdr(s)
             /\ n > 1 => xfers[s][n][1] > xfers[s][n - 1][1]
        /\ HasEnded(s) <=> (fsm[s] = "IDLE" /\ xfers[s] # << >>)
        /\ HasEnded(s) =>
             /\ Len(xfers[s]) = NWords
             /\ xfers[s][NWords][1] = InitAdr(s) + (NWords - 1) * IncrAdr(s)

C5_Witness ==
    /\ NWords = MaxWords
    /\ HasEnded("pkt_stream_h")
    /\ HasEnded("pkt_check_h")
    /\ Len(xfers["pkt_check_h"]) = MaxWords

Classes == { ClassOf(std, s) : std \in {"axi-lite", "wishbone"}, s \in Stages }

\* r is x shifted right by two bits
ShiftsRight2(x, r) == 4 * r <= x /\ x < 4 * r + 4

\* base addresses and byte lengths the arithmetic is evaluated on: those of
\* the run, an unaligned base, and 0x20000 with 0x100
ArithBases == { init_adr(s) : s \in Stages } \cup {7, 131072}
ArithLens == { 4 * n : n \in 1 .. MaxWords } \cup {256}

\* C6: in byte mode a class derives (_init_adr, _incr_adr) = (base, 4), in
\* word mode (base >> 2, 1), and in both modes the address span _max_len is
\* max_len/4 increments, for each of the four classes alike; 0x20000 with
\* 0x100 in word mode gives 0x8000 and 64; and the stages of a run use these values: the
\* first transfer is at the derived initial address, consecutive transfers
\* are one increment apart, and a stage that ended made max_len/4 of them.
C6_AddressArithmetic ==
    /\ \A cls \in Classes : \A base \in ArithBases : \A len \in ArithLens :
         /\ ClassInitAdr(cls, "byte", base) = base
         /\ ClassIncrAdr(cls, "byte") = 4
         /\ ClassMaxLen(cls, "byte", len) = 4 * (len \div 4)
         /\ ShiftsRight2(base, ClassInitAdr(cls, "word", base))
         /\ ClassIncrAdr(cls, "word") = 1
         /\ ClassMaxLen(cls, "word", len) = len \div 4
    /\ \A cls \in Classes :
         /\ ClassInitAdr(cls, "word", 131072) = 32768
         /\ ClassMaxLen(cls, "word", 256) \div ClassIncrAdr(cls, "word") = 64
    /\ \A s \in Stages :
         /\ xfers[s] # << >> =>
              IF addressing = "byte" THEN xfers[s][1][1] = init_adr(s)
              ELSE ShiftsRight2(init_adr(s), xfers[s][1][1])
         /\ \A n \in 2 .. Len(xfers[s]) :
              xfers[s][n][1] - xfers[s][n - 1][1] = (IF addressing = "byte" THEN 4 ELSE 1)
         /\ HasEnded(s) => 4 * Len(xfers[s]) = max_len

C6_Witness ==
    /\ addressing = "word"
    /\ bus_std = "wishbone"
    /\ HasEnded("pkt_check_l")
    /\ Len(xfers["pkt_check_l"]) = MaxWords
    /\ xfers["pkt_check_l"][1][1] = init_adr("pkt_check_l") \div 4

\* cycles elapsed since the first data_error of the run
SomeMismatch == \E c \in Checkers : since_err[c] # NoVal
Elapsed == IF since_err["pkt_check_h"] > since_err["pkt_check_l"]
           THEN since_err["pkt_check_h"] ELSE since_err["pkt_check_l"]
FirstToFlag == IF since_err["pkt_check_h"] > since_err["pkt_check_l"]
               THEN "pkt_check_h" ELSE "pkt_check_l"

\* C7 as stated: once a checker has flagged a mismatch, the run terminates
\* exactly 128 cycles after the first mismatch, never earlier, never later
\* (stated for the runs without a split acceptance, where a mismatch can
\* only come from the fault injection).
C7_ExactWindow ==
    /\ \A c \in Checkers : since_err[c] <= WatchdogDelay
    /\ (finished /\ SomeMismatch /\ early = 0) => Elapsed = WatchdogDelay

\* C7 amended: the run never continues beyond 128 cycles after the first
\* mismatch; it terminates exactly at 128 cycles when the timeline of the
\* checker that flagged first executes Finish(), and earlier only when
\* pkt_check_l.end terminates it.
C7_WindowOrEnd ==
    /\ \A c \in Checkers : since_err[c] <= WatchdogDelay
    /\ (finished /\ SomeMismatch) =>
         /\ (Elapsed = WatchdogDelay) <=> (FirstToFlag \in finish_by)
         /\ (Elapsed < WatchdogDelay) => finish_by = {"end"}

C7_Witness ==
    /\ finished
    /\ SomeMismatch
    /\ Elapsed = WatchdogDelay
    /\ finish_by = {FirstToFlag}

\* C8 as stated: the run terminates by exactly one cause (stated for the
\* runs without a split acceptance).
C8_OneCause == (finished /\ early = 0) => Cardinality(finish_by) = 1

\* C8 amended: the run terminates in the first cycle in which pkt_check_l
\* asserts end or a timeline reaches 128, with every cause that holds in
\* that cycle: the end and one timeline may coincide, the two timelines
\* never do.
C8_FirstCause ==
    /\ finished <=> (finish_by # {})
    /\ ("end" \in finish_by) <=> HasEnded("pkt_check_l")
    /\ \A c \in Checkers :
         (c \in finish_by) <=> (finished /\ since_err[c] = WatchdogDelay)
    /\ ~(Checkers \subseteq finish_by)

C8_Witness ==
    /\ finished
    /\ errlog["pkt_check_h"] # << >>
    /\ errlog["pkt_check_l"] # << >>
    /\ finish_by = {"pkt_check_h"}

\* C9: without a mismatch the run terminates in the cycle in which
\* pkt_check_l asserts end and not before: then the four stages have ended
\* in pipeline order, each after its full session.
C9_CleanCompletion ==
    NoMismatch =>
        /\ finished <=> HasEnded("pkt_check_l")
        /\ finished =>
             /\ finish_by = {"end"}
             /\ ended = << "pkt_stream_h", "pkt_stream_l", "pkt_check_h", "pkt_check_l" >>
             /\ \A s \in Stages : Len(xfers[s]) = NWords

C9_Witness ==
    /\ finished
    /\ NoMismatch
    /\ NWords = MaxWords
    /\ early = 0

(* ------------------------------- progress ------------------------------- *)
\* in grants everything the slave side may grant in this cycle
Granted(in) ==
    \A s \in Stages :
        \A j \in (IF s \in Writers THEN WriterIn(s) ELSE CheckerIn(s)) :
            \A f \in DOMAIN NoIn : j[f] => in[s][f]

Grant == \E in \in Inputs : Granted(in) /\ Tick(in)

\* The clock runs, and the memory does not withhold an acceptance, a
\* response or an acknowledge for ever.
LiveInit == InitWith(MaxCorrupt - 1)

FairSpec == LiveInit /\ [][Next]_vars /\ WF_vars(Grant)

\* C10 as stated, at the end of the run: every stage that was started has
\* asserted end when the run terminates (stated for the runs without an
\* split acceptance).
C10_AllStartedEnd ==
    (finished /\ early = 0) => \A s \in Stages : xfers[s] # << >> => HasEnded(s)

\* C10 amended: the run eventually terminates, and every stage that left
\* IDLE eventually asserts end unless the run terminates first.
C10_Progress ==
    /\ <>finished
    /\ \A s \in Stages : (fsm[s] # "IDLE") ~> (HasEnded(s) \/ finished)

C10_Witness ==
    /\ finished
    /\ Len(ended) = 4
    /\ NWords = MaxWords
    /\ ~NoMismatch

(* ------------------------------ error flag ------------------------------ *)
\* C11 as stated: once a mismatch has set the error flag of a checker, the
\* flag is set in every later state of the run.
C11_StickyFlag == \A c \in Checkers : errlog[c] # << >> => error_flag[c]

\* C11 amended: data_error is a pulse: it is high only in the cycle in which
\* a mismatching read word is received, so after that cycle the checker is
\* in WAIT_RD_ACK, and it is low whenever the checker is in IDLE; what stays
\* on after the first mismatch is the timeline of the watchdog, which runs
\* until the run terminates.
C11_PulseFlag ==
    \A c \in Checkers :
        /\ error_flag[c] => (errlog[c] # << >> /\ fsm[c] = "WAIT_RD_ACK")
        /\ fsm[c] = "IDLE" => ~error_flag[c]
        /\ errlog[c] # << >> => (counter[c] # 0 \/ finished)

C11_Witness ==
    /\ errlog["pkt_check_h"] # << >>
    /\ ~error_flag["pkt_check_h"]
    /\ fsm["pkt_check_h"] = "IDLE"
    /\ HasEnded("pkt_check_h")
    /\ counter["pkt_check_h"] # 0
    /\ ~finished

\* the records the reads 1 .. n of checker c emit when every mismatching read
\* emits one: address, word read, expected word
RECURSIVE MismatchLog(_, _)
MismatchLog(c, n) ==
    IF n = 0 THEN << >>
    ELSE LET a == PatternAddr(c, n - 1)
         IN IF mem[a] # PatternVal(c, n - 1)
            THEN Append(MismatchLog(c, n - 1), << a, mem[a], PatternVal(c, n - 1) >>)
            ELSE MismatchLog(c, n - 1)

\* C12 as stated: a checker session emits at most one record, that of its
\* first mismatch (stated for the runs without a split acceptance).
C12_FirstOnly == (early = 0) => \A c \in Checkers : Len(errlog[c]) <= 1

\* C12 amended: every mismatching read of a session emits its own record
\* (address, word read, expected word), in the order of the reads, and a
\* later record leaves the earlier ones as they were; only the watchdog is
\* first-mismatch-only: its timeline counts from the first mismatch.
C12_EveryMismatch ==
    \A c \in Checkers :
        /\ errlog[c] = MismatchLog(c, Len(xfers[c]))
        /\ (since_err[c] # NoVal /\ ~finished) => counter[c] = since_err[c]

C12_Witness ==
    /\ early = 0
    /\ Len(errlog["pkt_check_l"]) = 2
    /\ RecAddress(errlog["pkt_check_l"][1]) # RecAddress(errlog["pkt_check_l"][2])

Timelines == { c \in Checkers : counter[c] = WatchdogDelay }

\* A bench around one stage d: the start input of d is driven from outside,
\* high for one cycle while d is in IDLE, after any number of idle cycles
\* and up to MaxRuns times; the other stages are never started.
Bench ==
    \E in \in Inputs : \E d \in Stages : \E go \in BOOLEAN :
        /\ \A s \in Stages \ {d} : starts[s] = 0
        /\ go => (fsm[d] = "IDLE" /\ starts[d] < MaxRuns)
        /\ Step(in, [s \in Stages |-> go /\ s = d], Timelines)

RerunInit == InitWith(0)

RerunSpec == RerunInit /\ [][Bench]_vars

C15_OneHandshakeEach ==
    \A s \in Writers :
        /\ beats[s][1] <= 1
        /\ beats[s][2] <= 1
        /\ b_ready(s) => beats[s] = << 1, 1 >>
        /\ aw_valid(s) => beats[s][1] = 0
        /\ w_valid(s) => beats[s][2] = 0

\* C16: the split-channel writer awaits the write response only after the
\* address and the data of the write have both made their handshake, and
\* base_addr and sent_data have advanced exactly once per response taken;
\* a response the slave presents earlier is left pending.
C16_ResponseAfterBoth ==
    \A s \in Writers :
        bus_std = "axi-lite" =>
            /\ b_ready(s) => (beats[s][1] >= 1 /\ beats[s][2] >= 1)
            /\ fsm[s] # "IDLE" =>
                 /\ base_addr[s] = (InitAdr(s) + Len(xfers[s]) * IncrAdr(s)) % AdrMod
                 /\ sent_data[s] = (init_val(s) + Len(xfers[s])) % DataMod
            /\ \A n \in 1 .. Len(xfers[s]) :
                 xfers[s][n] = << PatternAddr(s, n - 1), PatternVal(s, n - 1) >>

C16_Witness ==
    /\ bus_std = "axi-lite"
    /\ Len(xfers["pkt_stream_h"]) = 1
    /\ fsm["pkt_stream_h"] = "WAIT_DAT"
    /\ slv_b["pkt_stream_h"]

\* C17: while a request accepted on a port awaits its completion - a write
\* whose address and data the slave holds or has written and whose response
\* was not taken, a read whose address the slave holds - the stage asserts
\* no request on that port (a Wishbone request is accepted and completed
\* by the same acknowledge).
C17_SingleOutstanding ==
    /\ \A s \in Writers : slv_b[s] => ~(aw_valid(s) \/ w_valid(s))
    /\ \A c \in Checkers : slv_ar[c] # NoVal => ~ar_valid(c)

(* ------------------------------- one pass ------------------------------- *)
\* how many times stage x asserted end
Occurrences(seq, x) == Cardinality({ n \in 1 .. Len(seq) : seq[n] = x })

\* C18 as stated: the start of a stage is asserted one cycle after the end
\* of the preceding stage, so right after the cycle of an end the start
\* that answers it has not been asserted yet.
C18_OneCycleLater ==
    \A s \in Stages \ {"pkt_stream_h"} :
        Previous(s) \in last_end => starts[s] < Occurrences(ended, Previous(s))

\* C18 amended: the start of a stage is asserted in the very cycle in which
\* the preceding stage asserts end, for each of the three chained pairs;
\* what comes one cycle after the end is the stage's first active state.
C18_SameCycle ==
    \A s \in Stages \ {"pkt_stream_h"} :
        /\ starts[s] = Occurrences(ended, Previous(s))
        /\ Previous(s) \in last_end => fsm[s] # "IDLE"

C18_Witness ==
    /\ last_end = {"pkt_check_h"}
    /\ starts["pkt_check_l"] = 1
    /\ fsm["pkt_check_l"] # "IDLE"

\* C19 as stated, at the end of the run: each of the four stages has
\* received exactly one start pulse and has run exactly one session (stated
\* for the runs without a split acceptance).
C19_ExactlyOnePass ==
    (finished /\ early = 0) =>
        \A s \in Stages : starts[s] = 1 /\ Occurrences(ended, s) = 1

\* C19 amended: SimSoC.fsm is in RESET in the first cycle only; a stage
\* receives at most one start pulse and runs at most one session; each
\* stage has received exactly one pulse and run exactly one session when
\* pkt_check_l asserts end, which a run terminated by the watchdog may
\* never reach.
C19_AtMostOnePass ==
    /\ soc_fsm = "RESET" => \A s \in Stages : starts[s] = 0 /\ fsm[s] = "IDLE"
    /\ starts["pkt_stream_h"] = (IF soc_fsm = "RESET" THEN 0 ELSE 1)
    /\ \A s \in Stages :
         /\ starts[s] <= 1
         /\ Occurrences(ended, s) <= starts[s]
         /\ Len(xfers[s]) <= starts[s] * NWords
    /\ HasEnded("pkt_check_l") =>
         \A s \in Stages :
             starts[s] = 1 /\ Occurrences(ended, s) = 1 /\ Len(xfers[s]) = NWords

C19_Witness ==
    /\ finished
    /\ HasEnded("pkt_check_l")
    /\ NWords = MaxWords
    /\ \A s \in Stages : starts[s] = 1

(* ------------------------ max_len of any value -------------------------- *)
\* The constructors take max_len as it is given: every length from 1 byte
\* on builds the four stages.
AnyLenInit == InitFor(1 .. 4 * MaxWords, MaxCorrupt - 1)

\* a session that does not end is followed for MaxWords + 1 transfers
Capped == \A s \in Stages : Len(xfers[s]) <= MaxWords

AnyLenNext == (Capped /\ Clock) \/ Corrupt

AnyLenSpec == AnyLenInit /\ [][AnyLenNext]_vars

\* C20: with a max_len that is not a multiple of 4 the construction is
\* rejected: no stage is ever started and no transfer is made.
C20_Rejected ==
    (max_len % 4 # 0) =>
        \A s \in Stages : starts[s] = 0 /\ fsm[s] = "IDLE" /\ xfers[s] = << >>

(* ------------------------------- C21 ----------------------------------- *)
\* the banner SimSoC gives to add_debug of each checker
Banner(c) == IF c = "pkt_check_h" THEN "[Checker High]" ELSE "[Checker Low]"

\* the lines a checker has displayed: the banner, then the record
Displayed(c) == [n \in 1 .. Len(errlog[c]) |-> << Banner(c) >> \o errlog[c][n]]

\* the word the pattern of checker c expects at address a
ExpectedAt(c, a) ==
    PatternVal(c, CHOOSE k \in 0 .. 4 * MaxWords : PatternAddr(c, k) % AdrMod = a)

\* C21 as stated: a displayed line carries the banner, the faulting
\* address, the expected word and then the word read.
C21_ExpectedThenObserved ==
    \A c \in Checkers : \A n \in 1 .. Len(errlog[c]) :
        LET line == Displayed(c)[n]
        IN /\ line[1] = Banner(c)
           /\ line[3] = ExpectedAt(c, line[2])
           /\ line[4] = mem[line[2]]

\* C21 amended: a displayed line carries the banner, the faulting address,
\* the word read and then the expected word, for the high and the low
\* checker and on both buses; the two words differ.
C21_ObservedThenExpected ==
    \A c \in Checkers : \A n \in 1 .. Len(errlog[c]) :
        LET line == Displayed(c)[n]
        IN /\ Len(line) = 4
           /\ line[1] = Banner(c)
           /\ \E k \in 0 .. NWords - 1 : line[2] = PatternAddr(c, k) % AdrMod
           /\ line[3] = mem[line[2]]
           /\ line[4] = ExpectedAt(c, line[2])
           /\ line[3] # line[4]

\* the seed word of the high region read back one too high, and a record
\* of the low checker in the same run
C21_Witness ==
    /\ errlog["pkt_check_h"] # << >>
    /\ Displayed("pkt_check_h")[1] =
           << "[Checker High]", InitAdr("pkt_check_h") % AdrMod,
              (init_val("pkt_check_h") + 1) % DataMod, init_val("pkt_check_h") >>
    /\ errlog["pkt_check_l"] # << >>
    /\ Displayed("pkt_check_l")[1][1] = "[Checker Low]"

(* ------------------------------- C22 ----------------------------------- *)
\* C22: a Wishbone request (stb) comes with cyc, with every byte lane
\* enabled and with we set by the writers and clear by the checkers; a
\* checker compares the word read in the cycle of the acknowledge: the flag
\* was high in the last cycle exactly if that cycle acknowledged a read of
\* a word that differs from the expected one, and the record is that read's.
C22_WishboneRequests ==
    /\ \A s \in Stages :
          /\ stb(s) => (cyc(s) /\ sel(s) = 15 /\ (we(s) <=> s \in Writers))
          /\ (bus_std = "wishbone" /\ ~stb(s)) => (~cyc(s) /\ ~we(s) /\ sel(s) = 0)
    /\ bus_std = "wishbone" =>
          \A c \in Checkers :
              LET n == Len(xfers[c])
              IN /\ errlog[c] = MismatchLog(c, n)
                 /\ error_flag[c] =>
                       /\ fsm[c] = "WAIT_RD_ACK"
                       /\ errlog[c][Len(errlog[c])] =
                             << xfers[c][n][1], mem[xfers[c][n][1]], xfers[c][n][2] >>
                 /\ (fsm[c] = "WAIT_RD_ACK" /\ mem[xfers[c][n][1]] # xfers[c][n][2])
                       => error_flag[c]

\* the second read of pkt_check_h was acknowledged in the last cycle and
\* did not match
C22_Witness ==
    /\ bus_std = "wishbone"
    /\ error_flag["pkt_check_h"]
    /\ Len(xfers["pkt_check_h"]) = 2
    /\ Len(xfers["pkt_stream_l"]) = NWords

(* ------------------------------- C23 ----------------------------------- *)
\* what may stand on the command line for --endpoint-bus-std
Options == {"omitted", "axi-lite", "wishbone", "axi_lite", "axi"}

\* main: parser.add_argument("--endpoint-bus-std", default="axi_lite")
parse_args(a) == IF a = "omitted" THEN "axi_lite" ELSE a

\* main constructs SimSoC(endpoint_bus_std=args.endpoint_bus_std): the
\* constructor asserts the value is one of the two standards and chooses
\* the writer and checker classes and their addressing by it
SimSoC ==
    /\ built = "no"
    /\ LET endpoint_bus_std == parse_args(args)
       IN IF endpoint_bus_std \in {"axi-lite", "wishbone"}
          THEN /\ built' = "SimSoC"
               /\ bus_std' = endpoint_bus_std
               /\ addressing' = IF endpoint_bus_std = "axi-lite" THEN "byte" ELSE "word"
          ELSE /\ built' = "AssertionError"
               /\ UNCHANGED << bus_std, addressing >>
    /\ UNCHANGED << max_len, args, soc_fsm, fsm, base_addr, sent_data, recv_data,
                    delay, dat_w, counter, finished, finish_by, mem, slv_aw,
                    slv_w, slv_b, slv_ar, xfers, ended, errlog, since_err,
                    corrupted, early, faults, error_flag, beats, starts, last_end,
                    quiet, alias >>

\* the simulation of a constructed design
Simulate == built = "SimSoC" /\ Clock

MainInit ==
    /\ args \in Options
    /\ built = "no"
    /\ alias = FALSE
    /\ bus_std = "none"
    /\ addressing = "none"
    /\ max_len = 4 * MaxWords
    /\ ResetState(0)

MainNext == SimSoC \/ Simulate

MainSpec == MainInit /\ [][MainNext]_vars

\* C23: the option accepts exactly axi-lite and wishbone, and a run without
\* the option is built with the axi-lite writers and checkers.
C23_DefaultIsAxiLite ==
    built # "no" =>
        /\ built = "SimSoC" <=> args \in {"omitted", "axi-lite", "wishbone"}
        /\ built = "SimSoC" =>
              bus_std = (IF args = "omitted" THEN "axi-lite" ELSE args)

(* ------------------------------- C24 ----------------------------------- *)
\* C24: in every cycle in which an AXI-Lite writer asserts w.valid, the
\* data word it presents is the pattern value of the write in progress
\* (the seed plus the number of completed writes), also while it waits in
\* WAIT_DAT for the data to be accepted after the address.
C24_DataIsPattern ==
    \A s \in Writers :
        w_valid(s) => w_data(s) = PatternVal(s, Len(xfers[s]))

(* ------------------------------- C25 ----------------------------------- *)
\* C25: the word on dat_w in the cycle in which a Wishbone write is
\* acknowledged is the pattern value of that write, whatever the latency of
\* the acknowledge, so that the i-th word stored in the region is seed + i.
C25_AckedDataIsPattern ==
    bus_std = "wishbone" =>
        \A s \in Writers :
            /\ \A n \in 1 .. Len(xfers[s]) :
                  xfers[s][n] = << PatternAddr(s, n - 1) % AdrMod, PatternVal(s, n - 1) >>
            /\ corrupted = {} =>
                  \A n \in 1 .. Len(xfers[s]) :
                      mem[PatternAddr(s, n - 1) % AdrMod] = PatternVal(s, n - 1)

(* ------------------------------- C26 ----------------------------------- *)
\* the value register of a stage: sent_data of a writer, recv_data of a checker
Value(s) == IF s \in Writers THEN sent_data[s] ELSE recv_data[s]

AllTransferred(s) == starts[s] > 0 /\ Len(xfers[s]) = starts[s] * NWords

\* C27 as stated: end is asserted in the step in which the stage completes
\* the last transfer of its session.
C27_EndWithLastTransfer ==
    \A s \in Stages : AllTransferred(s) => Occurrences(ended, s) = starts[s]

\* C27 amended: a stage asserts end in exactly one cycle per session, the
\* cycle in which it moves to IDLE after its last transfer: it has ended
\* once per session when it is in IDLE and once per earlier session
\* otherwise. For the AXI-Lite writer that is the cycle of the last write
\* response; the Wishbone writer asserts end at the end of the wait that
\* follows its last acknowledge, and a checker in WAIT_RD_ACK, the cycle
\* after its last read.
C27_EndOnEnteringIdle ==
    \A s \in Stages :
        /\ s \in last_end =>
              /\ fsm[s] = "IDLE"
              /\ Occurrences(ended, s) >= 1
              /\ Len(xfers[s]) = Occurrences(ended, s) * NWords
        /\ fsm[s] = "IDLE" => Occurrences(ended, s) = starts[s]
        /\ fsm[s] # "IDLE" => Occurrences(ended, s) = starts[s] - 1
        /\ (AllTransferred(s) /\ s \in Writers /\ bus_std = "axi-lite") =>
              Occurrences(ended, s) = starts[s]
        /\ (AllTransferred(s) /\ Occurrences(ended, s) < starts[s]) =>
              fsm[s] = (IF s \in Writers THEN "WAIT_DELAY" ELSE "WAIT_RD_ACK")

\* pkt_check_h asserted end in the last cycle, for its second session
C27_Witness ==
    /\ last_end = {"pkt_check_h"}
    /\ starts["pkt_check_h"] = 2
    /\ Occurrences(ended, "pkt_check_h") = 2
    /\ NWords = MaxWords

(* ------------------------------- C28 ----------------------------------- *)
\* A bench around one stage d whose start input may be high in any cycle,
\* in IDLE or in the middle of a session, MaxRuns times in all; the other
\* stages are never started.
Poke ==
    \E in \in Inputs : \E d \in Stages : \E go \in BOOLEAN :
        /\ \A s \in Stages \ {d} : starts[s] = 0
        /\ go => starts[d] < MaxRuns
        /\ Step(in, [s \in Stages |-> go /\ s = d], Timelines)

PokeSpec == RerunInit /\ [][Poke]_vars

\* the sessions stage s has begun: those it has ended and the one in progress
Begun(s) == Occurrences(ended, s) + (IF fsm[s] # "IDLE" THEN 1 ELSE 0)

\* C28: a start that comes while the stage is not in IDLE changes nothing:
\* the stage begins no more sessions than it saw start cycles, every
\* session makes its max_len/4 transfers at the pattern addresses in order
\* (the k-th transfer of a session is never followed by the first one
\* again), and a stage back in IDLE has made max_len/4 transfers per end.
C28_NoRestart ==
    \A s \in Stages :
        /\ Begun(s) <= starts[s]
        /\ \A n \in 1 .. Len(xfers[s]) :
              /\ xfers[s][n][1] = PatternAddr(s, (n - 1) % NWords) % AdrMod
              /\ (s \in Checkers \/ bus_std = "axi-lite" \/ early = 0) =>
                    xfers[s][n][2] = PatternVal(s, (n - 1) % NWords)
        /\ Occurrences(ended, s) * NWords <= Len(xfers[s])
        /\ Len(xfers[s]) <= Begun(s) * NWords
        /\ fsm[s] = "IDLE" => Len(xfers[s]) = Occurrences(ended, s) * NWords

\* pkt_stream_h on AXI-Lite saw start twice and made one session of
\* MaxWords writes: one start came while it was not in IDLE
C28_Witness ==
    /\ bus_std = "axi-lite"
    /\ NWords = MaxWords
    /\ starts["pkt_stream_h"] = 2
    /\ ended = << "pkt_stream_h" >>
    /\ fsm["pkt_stream_h"] = "IDLE"
    /\ Len(xfers["pkt_stream_h"]) = NWords

(* ------------------------------- C29 ----------------------------------- *)
\* C29: after every acknowledged write the Wishbone writer keeps stb and
\* cyc low for WaitDelay + 1 cycles: the delay counter is 0 outside
\* WAIT_DELAY (so 0 on entry), counts the cycles of the wait, and every
\* completed wait lasted WaitDelay + 1 cycles; address and value keep the
\* ones of the acknowledged write during the wait and are those of the
\* next write in WR_DAT.
C29_FixedQuiescence ==
    bus_std = "wishbone" =>
        \A s \in Writers :
            LET n == Len(xfers[s])
            IN /\ fsm[s] = "WAIT_DELAY" =>
                     /\ ~stb(s) /\ ~cyc(s)
                     /\ delay[s] = quiet[s][1]
                     /\ delay[s] <= WaitDelay
                     /\ base_addr[s] = xfers[s][n][1]
                     /\ sent_data[s] = PatternVal(s, (n - 1) % NWords)
               /\ fsm[s] # "WAIT_DELAY" => (delay[s] = 0 /\ quiet[s][1] = 0)
               /\ quiet[s][2] = (IF n = 0 \/ (n = 1 /\ fsm[s] = "WAIT_DELAY")
                                 THEN 0 ELSE WaitDelay + 1)
               /\ fsm[s] = "WR_DAT" =>
                     /\ base_addr[s] = PatternAddr(s, n % NWords) % AdrMod
                     /\ sent_data[s] = PatternVal(s, n % NWords)

\* pkt_stream_l requests the second write of its second session, after
\* the wait that followed the first
C29_Witness ==
    /\ bus_std = "wishbone"
    /\ NWords = MaxWords
    /\ fsm["pkt_stream_l"] = "WR_DAT"
    /\ Len(xfers["pkt_stream_l"]) = NWords + 1
    /\ quiet["pkt_stream_l"][2] = WaitDelay + 1

(* ------------------------------- C30 ----------------------------------- *)
\* C30: the pattern value is a counter of the data width: the value
\* registers stay within the width, the n-th transfer of a writer and of a
\* checker carries (seed + n - 1) modulo 2^width, and a session whose
\* values wrap reads back without a mismatch and without starting the
\* watchdog (runs without corruption and without a split acceptance).
C30_WrapRoundTrip ==
    /\ \A s \in Stages :
          /\ Value(s) \in 0 .. DataMod - 1
          /\ \A n \in 1 .. Len(xfers[s]) :
                (s \in Checkers \/ early = 0) =>
                    xfers[s][n][2] = (init_val(s) + (n - 1)) % DataMod
    /\ (early = 0 /\ corrupted = {}) =>
          /\ NoMismatch
          /\ \A c \in Checkers : counter[c] = 0 /\ ~error_flag[c]
          /\ \A s \in Writers : \A n \in 1 .. Len(xfers[s]) :
                mem[xfers[s][n][1]] = (init_val(s) + (n - 1)) % DataMod

\* the high session starts at the largest value and wraps to 0 with its
\* second word; pkt_check_h has read both words back and ended
C30_Witness ==
    /\ early = 0
    /\ corrupted = {}
    /\ init_val("pkt_check_h") = DataMod - 1
    /\ Len(xfers["pkt_check_h"]) = 2
    /\ xfers["pkt_stream_h"][2][2] = 0
    /\ xfers["pkt_check_h"][2][2] = 0
    /\ HasEnded("pkt_check_h")
    /\ NoMismatch

(* ------------------------------- C31 ----------------------------------- *)
\* the writer of the region checker c reads
WriterOf(c) == IF c = "pkt_check_h" THEN "pkt_stream_h" ELSE "pkt_stream_l"

C32_StartGated ==
    /\ \A in \in Inputs :
         /\ Start("pkt_stream_h", in) = (soc_fsm = "RESET")
         /\ \A s \in Stages \ {"pkt_stream_h"} :
               /\ Start(s, in) = (soc_fsm # "RESET" /\ End(Previous(s), in))
               /\ soc_fsm = "RESET" => ~Start(s, in)
    /\ starts["pkt_stream_h"] = (IF soc_fsm = "RESET" THEN 0 ELSE 1)
    /\ soc_fsm = "RESET" => \A s \in Stages : starts[s] = 0

\* past RESET, pkt_check_h is being started by the end of pkt_stream_l
C32_Witness ==
    /\ soc_fsm = "WAIT-END-CHECK"
    /\ starts["pkt_check_h"] = 0
    /\ \E in \in Inputs : Start("pkt_check_h", in) /\ End("pkt_stream_l", in)

(* ------------------------------- C33 ----------------------------------- *)
\* the payload signals of the request channels: combinational, driven in
\* the request states and at their default 0 elsewhere
aw_addr(s) == IF aw_valid(s) THEN base_addr[s] ELSE 0
ar_addr(s) == IF ar_valid(s) THEN base_addr[s] ELSE 0
adr(s) == IF stb(s) THEN base_addr[s] ELSE 0

\* bus.w.strb: every byte lane in WR_DAT-ADR and WAIT_DAT; the registered
\* NextValue(bus.w.strb, 0) of WAIT_DAT takes effect on the edge that
\* enters WAIT_B, where the combinational value is 0 as well
w_strb(s) == IF w_valid(s) THEN 2 ^ (32 \div 8) - 1 ELSE 0

\* C33: from one cycle to the next, a request that stays asserted without
\* having been accepted keeps its payload: the write address, the write
\* data and strobes, the read address, and address, data, direction and
\* byte enables of a Wishbone request.
C33_StablePayload ==
    [][ /\ \A s \in Writers :
             /\ (aw_valid(s) /\ aw_valid(s)') => aw_addr(s)' = aw_addr(s)
             /\ (w_valid(s) /\ w_valid(s)' /\ beats'[s][2] = beats[s][2]) =>
                   (w_data(s)' = w_data(s) /\ w_strb(s)' = w_strb(s))
             /\ (stb(s) /\ stb(s)' /\ Len(xfers'[s]) = Len(xfers[s])) =>
                   /\ adr(s)' = adr(s)
                   /\ dat_w'[s] = dat_w[s]
                   /\ we(s)' = we(s)
                   /\ sel(s)' = sel(s)
        /\ \A c \in Checkers :
             /\ (ar_valid(c) /\ ar_valid(c)') => ar_addr(c)' = ar_addr(c)
             /\ (stb(c) /\ stb(c)' /\ Len(xfers'[c]) = Len(xfers[c])) =>
                   (adr(c)' = adr(c) /\ we(c)' = we(c) /\ sel(c)' = sel(c)) ]_vars

(* ------------------------------- C34 ----------------------------------- *)
\* C34: a stage in IDLE drives no valid, no ready, no stb, cyc, we or sel
\* on its port, and whatever the slave side presents, no transfer of the
\* stage completes, no handshake is counted, nothing is written through
\* its port and no read is compared.
C34_IdleIsSilent ==
    \A s \in Stages :
        fsm[s] = "IDLE" =>
            /\ ~aw_valid(s) /\ ~w_valid(s) /\ ~b_ready(s)
            /\ ~ar_valid(s) /\ ~r_ready(s)
            /\ ~stb(s) /\ ~cyc(s) /\ ~we(s) /\ sel(s) = 0
            /\ s \in Writers =>
                  \A i \in WriterIn(s) :
                      /\ ~Completes(s, i)
                      /\ MemWrite(s, i) = << >>
                      /\ Handshakes(s, i) = beats[s]
                      /\ ~i.aw_ready /\ ~i.w_ready /\ ~i.ack
            /\ s \in Checkers =>
                  \A i \in CheckerIn(s) :
                      /\ ~Completes(s, i)
                      /\ ~data_error(s, i)
                      /\ ~i.ar_ready /\ ~i.r_valid /\ ~i.ack

\* pkt_stream_h is back in IDLE while pkt_stream_l drives a request
C34_Witness ==
    /\ fsm["pkt_stream_h"] = "IDLE"
    /\ HasEnded("pkt_stream_h")
    /\ fsm["pkt_check_h"] = "IDLE"
    /\ DrivesBus("pkt_stream_l")
    /\ xfers["pkt_stream_l"] # << >>

(* ------------------------------- C35 ----------------------------------- *)
\* C35: the timeline of a checker counts the cycles since the first
\* mismatch of that checker, however many mismatches follow; it is at rest
\* while the checker has flagged none; and a termination forced by a
\* timeline comes at WatchdogDelay cycles from the timeline of the checker
\* that flagged first, the other checker having flagged later or not at all.
C35_NotRestarted ==
    /\ \A c \in Checkers :
         /\ (since_err[c] # NoVal /\ ~finished) =>
               (counter[c] = since_err[c] /\ errlog[c] # << >>)
         /\ since_err[c] = NoVal => (counter[c] = 0 /\ errlog[c] = << >>)
         /\ since_err[c] <= WatchdogDelay
    /\ \A c \in finish_by \cap Checkers :
         /\ c = FirstToFlag
         /\ since_err[c] = WatchdogDelay
         /\ \A d \in Checkers \ {c} : since_err[d] < WatchdogDelay

\* pkt_check_h flagged a second mismatch while its timeline was counting,
\* and the timeline terminated the run WatchdogDelay cycles after the first
C35_Witness ==
    /\ finish_by = {"pkt_check_h"}
    /\ Len(errlog["pkt_check_h"]) = 2
    /\ RecAddress(errlog["pkt_check_h"][1]) # RecAddress(errlog["pkt_check_h"][2])
    /\ since_err["pkt_check_h"] = WatchdogDelay

(* ------------------------------- C36 ----------------------------------- *)
\* runs of a constructed design whose decoder may map both regions onto
\* the same words; no word is corrupted otherwise
AliasInit ==
    /\ bus_std \in {"axi-lite", "wishbone"}
    /\ addressing \in {"byte", "word"}
    /\ max_len \in { 4 * n : n \in 1 .. MaxWords }
    /\ args = bus_std
    /\ built = "SimSoC"
    /\ alias \in BOOLEAN
    /\ ResetState(0)

AliasSpec == AliasInit /\ [][Clock]_vars

\* a write of pkt_stream_l went to a word pkt_stream_h had written
Overwritten ==
    \E n \in 1 .. Len(xfers["pkt_stream_h"]) : \E m \in 1 .. Len(xfers["pkt_stream_l"]) :
        Cell(xfers["pkt_stream_h"][n][1]) = Cell(xfers["pkt_stream_l"][m][1])

\* C36: when both regions are mapped onto the same words, pkt_check_h
\* flags a mismatch with its first read, at the first address of its
\* region, and the word it reads is not its seed; so while pkt_check_h has
\* read and no checker has a record, no write of pkt_stream_l went to a
\* word written by pkt_stream_h.
C36_AliasDetected ==
    /\ (alias /\ xfers["pkt_check_h"] # << >>) =>
          /\ errlog["pkt_check_h"] # << >>
          /\ RecAddress(errlog["pkt_check_h"][1]) = InitAdr("pkt_check_h") % AdrMod
          /\ RecObserved(errlog["pkt_check_h"][1]) # init_val("pkt_check_h") % DataMod
    /\ (xfers["pkt_check_h"] # << >> /\ NoMismatch) => (~alias /\ ~Overwritten)
    /\ (alias /\ HasEnded("pkt_stream_l")) => Overwritten

\* aliased run without a split acceptance: the first read of pkt_check_h
\* returned the seed of the low region
C36_Witness ==
    /\ alias
    /\ early = 0
    /\ Len(xfers["pkt_check_h"]) = 1
    /\ errlog["pkt_check_h"] =
          << << InitAdr("pkt_check_h") % AdrMod, init_val("pkt_stream_l") % DataMod,
                init_val("pkt_check_h") % DataMod >> >>

====
